---- MODULE Spec2Model ----
(***************************************************************************)
(* Model of the file transfer protocol of server.py (FileTransferServer)   *)
(* and client.py (FileTransferClient).                                     *)
(*                                                                         *)
(* These levels are modelled, each with its own specification:             *)
(*   Spec      one connection, the server's handle_client on one side and  *)
(*             a FileTransferClient on the other.  Every socket.send and   *)
(*             every recv loop moves its whole buffer (the stream is a     *)
(*             sequence of frames and raw byte blocks).                    *)
(*   SpecPeer  the same handle_client, driven by an arbitrary peer that    *)
(*             may send any frame (malformed JSON, missing fields, ...).   *)
(*   SpecClient  one call of the FileTransferClient against a server whose *)
(*             answer may be cut short, closed or damaged.                 *)
(*   SpecMulti several accepted connections, one handle_client thread      *)
(*             each, interleaved step by step.                             *)
(*   SpecChange  Spec for one download call, where a served file may be    *)
(*             rewritten between the server's size query and its reads.    *)
(*   SpecServe one handle_client thread writing to a socket with a bounded *)
(*             buffer, under fairness of the thread and of the reader.     *)
(*   SpecSend, SpecRecv                                                    *)
(*             send_message / socket.send and receive_message at the byte  *)
(*             level, where a socket call may move only part of a buffer.  *)
(***************************************************************************)
EXTENDS Integers, Sequences, FiniteSets, TLC

VARIABLES
    serverDir,   \* server_directory: name -> entry (missing, directory, regular file)
    downloads,   \* download_directory of the client: name -> absent | file content
    c2s,         \* stream client -> server (frames not yet read by the server)
    s2c,         \* stream server -> client (frames and raw blocks not yet read)
    conn,        \* handle_client of the connection: "Active" | "Closed"
    csock,       \* the client's socket: "open" | "closed"
    cpc,         \* where the client is inside list_files / download_file / ...
    cl,          \* the client's local variables of the running call
    ret,         \* the value the last client call returned
    nreq,        \* number of commands sent on the connection
    okFiles,     \* filenames the running call printed "Successfully downloaded" for
    errSeen,     \* Error frames the running multi download skipped with continue
    lastCmd,     \* the text handle_client received for the latest command (None: not yet)
    lastOut,     \* what the server handed to the socket while serving lastCmd
    wire,        \* byte level: bytes accepted by the socket, not yet read
    handed,      \* byte level: the buffers handed to socket.send, in order
    wclosed,     \* byte level: the sender is "open", "closed" between frames, or "cut" inside one
    rpc,         \* byte level: receive_message is "idle" or in its "body" loop
    rlen,        \* byte level: message_length
    rdata,       \* byte level: message_data
    rgot,        \* byte level: bytes the running receive_message took from the stream
    results,     \* byte level: what receive_message returned, call by call
    workers      \* several connections: per accepted connection, its handle_client thread

protoVars == <<serverDir, downloads, c2s, s2c, conn, csock, cpc, cl, ret, nreq,
               okFiles, errSeen, lastCmd, lastOut>>
byteVars  == <<wire, handed, wclosed, rpc, rlen, rdata, rgot, results>>
multiVars == <<workers>>
vars      == <<serverDir, downloads, c2s, s2c, conn, csock, cpc, cl, ret, nreq,
               okFiles, errSeen, lastCmd, lastOut,
               wire, handed, wclosed, rpc, rlen, rdata, rgot, results, workers>>

-----------------------------------------------------------------------------
(* Bounds of the model *)

\* self.chunk_size (1 MiB in server.py), scaled down
chunk_size == 2
\* largest served file, in bytes
MaxFileSize == 3
\* commands sent on one connection
MaxRequests == 3
\* os.path.getsize of a directory entry (platform dependent, positive)
DirSize == 1

Names == {"a", "b"}

Min(x, y) == IF x <= y THEN x ELSE y

\* The content of served file `name` when it holds n bytes: every byte of every
\* file is different, so a lost, repeated, reordered or foreign byte shows.
FileBase(name) == IF name = "a" THEN 10 ELSE 20
FileData(name, n) == [i \in 1..n |-> FileBase(name) + i]

Missing == [kind |-> "missing"]
Directory == [kind |-> "dir", size |-> DirSize]
RegularFile(data) == [kind |-> "file", data |-> data]

Entries(name) == {Missing, Directory} \cup {RegularFile(FileData(name, n)) : n \in 0..MaxFileSize}

Absent == [kind |-> "absent"]
OldContent == <<99>>

-----------------------------------------------------------------------------
(* JSON texts and stream items *)

\* json.dumps of a dict
JsonDumps(obj) == [text |-> "object", obj |-> obj]
\* Python None as the result of receive_message
NoneText == [text |-> "none"]
\* `not data`: None or the empty string
Falsy(t) == t.text \in {"none", "empty"}
\* json.loads raises on text that is no JSON
JsonLoadsRaises(t) == t.text \notin {"object", "array"}
JsonLoads(t) == t.obj
\* dict.get(key): None when the key is absent
Has(obj, key) == key \in DOMAIN obj

Frame(text) == [kind |-> "frame", text |-> text]
Raw(data) == [kind |-> "raw", data |-> data]

-----------------------------------------------------------------------------
(* server.py: FileTransferServer, one connection, whole-buffer transport *)

\* send_message: one length-prefixed frame on the stream
send_message(message) == <<Frame(message)>>
\* client_socket.send(chunk_data): the bytes follow unframed; send(b'') adds nothing
sock_send(data) == IF data = <<>> THEN <<>> ELSE <<Raw(data)>>

error_response(message) == JsonDumps([type |-> "error", message |-> message])

\* dict.get: the value, or None
Get(obj, key) == IF Has(obj, key) THEN [none |-> FALSE, v |-> obj[key]] ELSE [none |-> TRUE]

Lookup(dir, filename) == IF filename \in DOMAIN dir THEN dir[filename] ELSE Missing

\* 1024 * 1024, the divisor of size_mb
MegaByte == 1048576
\* round(file_size / (1024 * 1024), 2), in hundredths of a megabyte (round half to even)
size_mb(file_size) ==
    LET q == (100 * file_size) \div MegaByte
        r == (100 * file_size) % MegaByte
    IN IF 2 * r > MegaByte THEN q + 1
       ELSE IF 2 * r < MegaByte THEN q
       ELSE IF q % 2 = 0 THEN q ELSE q + 1

\* os.listdir: the existing entries, in an order the platform chooses
ListdirOrders(dir) ==
    LET present == {n \in DOMAIN dir : dir[n].kind # "missing"}
    IN {o \in [1..Cardinality(present) -> present] : \A i, j \in DOMAIN o : i # j => o[i] # o[j]}

\* the loop of send_file_list without the os.path.isfile test
RECURSIVE list_entries_all(_, _)
list_entries_all(dir, order) ==
    IF order = <<>> THEN <<>>
    ELSE LET filename == Head(order)
             file_size == IF dir[filename].kind = "file" THEN Len(dir[filename].data)
                          ELSE dir[filename].size
         IN <<[name |-> filename, size |-> file_size, size_mb |-> size_mb(file_size)]>>
            \o list_entries_all(dir, Tail(order))

RECURSIVE list_entries(_, _)
list_entries(dir, order) ==
    IF order = <<>> THEN <<>>
    ELSE LET filename == Head(order)
             rest == list_entries(dir, Tail(order))
         IN IF dir[filename].kind = "file"
            THEN <<[name |-> filename,
                    size |-> Len(dir[filename].data),
                    size_mb |-> size_mb(Len(dir[filename].data))]>> \o rest
            ELSE rest

send_file_list(dir, order) ==
    send_message(JsonDumps([type |-> "file_list", files |-> list_entries(dir, order)]))

\* num_chunks rounded down: file_size // self.chunk_size
num_chunks_floor(file_size) == file_size \div chunk_size

\* num_chunks that is never 0: max(1, ceil(file_size / chunk_size))
num_chunks_at_least_one(file_size) ==
    IF file_size = 0 THEN 1 ELSE (file_size + chunk_size - 1) \div chunk_size

\* num_chunks = (file_size + self.chunk_size - 1) // self.chunk_size
num_chunks_of(file_size) == (file_size + chunk_size - 1) \div chunk_size

\* f.read(n) at the current offset of the open file
f_read(data, offset, n) == SubSeq(data, offset + 1, Min(offset + n, Len(data)))

\* chunk_info with the loop index as chunk_number (0-based)
chunk_info_zero_based(chunk_num, num_chunks, chunk_data) ==
    [type |-> "file_chunk",
     chunk_number |-> chunk_num,
     total_chunks |-> num_chunks,
     chunk_size |-> Len(chunk_data)]

\* chunk_info announcing self.chunk_size for every chunk, whatever f.read returned
chunk_info_declared_size(chunk_num, num_chunks, chunk_data) ==
    [type |-> "file_chunk",
     chunk_number |-> chunk_num + 1,
     total_chunks |-> num_chunks,
     chunk_size |-> chunk_size]

chunk_info(chunk_num, num_chunks, chunk_data) ==
    [type |-> "file_chunk",
     chunk_number |-> chunk_num + 1,
     total_chunks |-> num_chunks,
     chunk_size |-> Len(chunk_data)]

\* for chunk_num in range(num_chunks): read, send the header, send the bytes
RECURSIVE send_chunks(_, _, _, _)
send_chunks(data, offset, chunk_num, num_chunks) ==
    IF chunk_num >= num_chunks THEN <<>>
    ELSE LET chunk_data == f_read(data, offset, chunk_size)
         IN send_message(JsonDumps(chunk_info(chunk_num, num_chunks, chunk_data)))
            \o sock_send(chunk_data)
            \o send_chunks(data, offset + Len(chunk_data), chunk_num + 1, num_chunks)

file_info(filename, file_size) ==
    [type |-> "file_info",
     filename |-> filename,
     file_size |-> file_size,
     num_chunks |-> num_chunks_of(file_size),
     chunk_size |-> chunk_size]

completion_msg(filename) == [type |-> "file_complete", filename |-> filename]

\* send_file without the return after the "not found" answer: os.path.getsize
\* raises next and the except clause answers a second time
send_file_no_return(dir, filename) ==
    IF filename.none
    THEN send_message(error_response("Error sending file"))
    ELSE LET entry == Lookup(dir, filename.v)
         IN IF entry.kind = "missing"
            THEN send_message(error_response("not found"))
                 \o send_message(error_response("Error sending file"))
            ELSE IF entry.kind = "dir"
            THEN send_message(JsonDumps(file_info(filename.v, entry.size)))
                 \o send_message(error_response("Error sending file"))
            ELSE send_message(JsonDumps(file_info(filename.v, Len(entry.data))))
                 \o send_chunks(entry.data, 0, 0, num_chunks_of(Len(entry.data)))
                 \o send_message(JsonDumps(completion_msg(filename.v)))

\* send_file: `filename` is command.get('filename'), None when the field is absent
send_file(dir, filename) ==
    IF filename.none
    THEN \* os.path.join(dir, None) raises; the except clause answers
         send_message(error_response("Error sending file"))
    ELSE LET entry == Lookup(dir, filename.v)
         IN IF entry.kind = "missing"
            THEN send_message(error_response("not found"))
            ELSE IF entry.kind = "dir"
            THEN \* exists and has a size, but open(filepath, 'rb') raises
                 send_message(JsonDumps(file_info(filename.v, entry.size)))
                 \o send_message(error_response("Error sending file"))
            ELSE send_message(JsonDumps(file_info(filename.v, Len(entry.data))))
                 \o send_chunks(entry.data, 0, 0, num_chunks_of(Len(entry.data)))
                 \o send_message(JsonDumps(completion_msg(filename.v)))

\* the loop of send_multiple_files going through filenames from the last to the first
RECURSIVE send_each_file_reversed(_, _)
send_each_file_reversed(dir, filenames) ==
    IF filenames = <<>> THEN <<>>
    ELSE send_each_file_reversed(dir, Tail(filenames))
         \o send_file(dir, [none |-> FALSE, v |-> Head(filenames)])

RECURSIVE send_each_file(_, _)
send_each_file(dir, filenames) ==
    IF filenames = <<>> THEN <<>>
    ELSE send_file(dir, [none |-> FALSE, v |-> Head(filenames)])
         \o send_each_file(dir, Tail(filenames))

\* send_multiple_files: `filenames` is command.get('filenames')
send_multiple_files(dir, filenames) ==
    IF filenames.none
    THEN \* len(None) raises; the except clause answers
         send_message(error_response("Error in multiple file transfer"))
    ELSE send_message(JsonDumps([type |-> "multiple_transfer_start",
                                 total_files |-> Len(filenames.v),
                                 filenames |-> filenames.v]))
         \o send_each_file(dir, filenames.v)
         \o send_message(JsonDumps([type |-> "multiple_transfer_complete",
                                    total_files |-> Len(filenames.v)]))

\* handle_client leaving its loop after a download_file that was answered with
\* an error
serve_command_error_closes(dir, command_data, order) ==
    IF Falsy(command_data) THEN [out |-> <<>>, close |-> TRUE]
    ELSE IF JsonLoadsRaises(command_data) THEN [out |-> <<>>, close |-> TRUE]
    ELSE IF command_data.text = "array" THEN [out |-> <<>>, close |-> TRUE]
    ELSE LET command == JsonLoads(command_data)
             cmd_type == Get(command, "type")
         IN IF cmd_type.none THEN [out |-> <<>>, close |-> FALSE]
            ELSE IF cmd_type.v = "list_files"
            THEN [out |-> send_file_list(dir, order), close |-> FALSE]
            ELSE IF cmd_type.v = "download_file"
            THEN LET out == send_file(dir, Get(command, "filename"))
                 IN [out |-> out, close |-> out[Len(out)].text.obj.type = "error"]
            ELSE IF cmd_type.v = "download_multiple"
            THEN [out |-> send_multiple_files(dir, Get(command, "filenames")), close |-> FALSE]
            ELSE IF cmd_type.v = "disconnect"
            THEN [out |-> <<>>, close |-> TRUE]
            ELSE [out |-> <<>>, close |-> FALSE]

\* One pass of the while loop of handle_client on a received command text:
\* what is written, and whether the loop is left (break or exception).
serve_command(dir, command_data, order) ==
    IF Falsy(command_data) THEN [out |-> <<>>, close |-> TRUE]
    ELSE IF JsonLoadsRaises(command_data) THEN [out |-> <<>>, close |-> TRUE]
    ELSE IF command_data.text = "array"
    THEN \* command.get on a value that is no dict raises
         [out |-> <<>>, close |-> TRUE]
    ELSE LET command == JsonLoads(command_data)
             cmd_type == Get(command, "type")
         IN IF cmd_type.none THEN [out |-> <<>>, close |-> FALSE]
            ELSE IF cmd_type.v = "list_files"
            THEN [out |-> send_file_list(dir, order), close |-> FALSE]
            ELSE IF cmd_type.v = "download_file"
            THEN [out |-> send_file(dir, Get(command, "filename")), close |-> FALSE]
            ELSE IF cmd_type.v = "download_multiple"
            THEN [out |-> send_multiple_files(dir, Get(command, "filenames")), close |-> FALSE]
            ELSE IF cmd_type.v = "disconnect"
            THEN [out |-> <<>>, close |-> TRUE]
            ELSE [out |-> <<>>, close |-> FALSE]

\* handle_client: receive one command (or end of stream) and serve it.  A write
\* to a peer that already closed either is dropped by the kernel or raises.
HandleClient ==
    /\ conn = "Active"
    /\ c2s # <<>> \/ csock = "closed"
    /\ LET command_data == IF c2s # <<>> THEN Head(c2s).text ELSE NoneText
       IN \E order \in ListdirOrders(serverDir) :
            LET r == serve_command(serverDir, command_data, order)
                broken == csock = "closed" /\ r.out # <<>>
            IN \E sendRaises \in (IF broken THEN BOOLEAN ELSE {FALSE}) :
                 /\ c2s' = IF c2s # <<>> THEN Tail(c2s) ELSE c2s
                 /\ s2c' = IF broken THEN s2c ELSE s2c \o r.out
                 /\ conn' = IF r.close \/ sendRaises THEN "Closed" ELSE "Active"
                 /\ lastCmd' = command_data
                 /\ lastOut' = r.out
    /\ UNCHANGED <<serverDir, downloads, csock, cpc, cl, ret, nreq, okFiles, errSeen>>
    /\ UNCHANGED <<byteVars, multiVars>>

-----------------------------------------------------------------------------
(* client.py: FileTransferClient on the same connection *)

IdleLocals ==
    [op |-> "none", req_filename |-> "", req_filenames |-> <<>>,
     filename |-> "", file_size |-> 0, num_chunks |-> 0, chunk_num |-> 0,
     total_received |-> 0, total_files |-> 0, file_index |-> 0,
     \* bookkeeping of the model, not locals of the code:
     \*   aligned   the call was made with nothing unread and nothing unanswered
     \*   before    the download directory when the call was made
     \*   prior     an earlier download_file of the connection was refused (missing file)
     \*   lost      a recv loop of the call met the end of the stream inside a chunk,
     \*             with okFiles and the download directory as they were right after
     \*   final_total  total_files of the multiple_transfer_complete the call accepted
     \*   progress  the progress values the call computed for the file it is receiving
     \*   opened    the names the call opened a destination file for
     aligned |-> TRUE, before |-> <<>>, prior |-> FALSE,
     lost |-> FALSE, lostOk |-> <<>>, lostDest |-> <<>>, final_total |-> -1,
     progress |-> <<>>, opened |-> {}]

\* receive_message of the client returns: a frame is at the head of the stream,
\* or the server closed and nothing is left (recv returns b'', the result is None)
RecvReady == \/ s2c # <<>> /\ Head(s2c).kind = "frame"
             \/ s2c = <<>> /\ conn = "Closed"
RecvText == IF s2c # <<>> THEN Head(s2c).text ELSE NoneText
RecvRest == IF s2c # <<>> THEN Tail(s2c) ELSE s2c

\* the unframed bytes at the head of a stream
RECURSIVE RawLead(_)
RawLead(stream) ==
    IF stream = <<>> \/ Head(stream).kind # "raw" THEN <<>>
    ELSE Head(stream).data \o RawLead(Tail(stream))
RECURSIVE DropRaw(_, _)
DropRaw(stream, n) ==
    IF n = 0 \/ stream = <<>> \/ Head(stream).kind # "raw" THEN stream
    ELSE IF Len(Head(stream).data) <= n
         THEN DropRaw(Tail(stream), n - Len(Head(stream).data))
         ELSE <<Raw(SubSeq(Head(stream).data, n + 1, Len(Head(stream).data)))>> \o Tail(stream)
OnlyRaw(stream) == \A i \in DOMAIN stream : stream[i].kind = "raw"

\* while len(chunk_data) < chunk_size: recv(...): the bytes read, and what is left.
\* Fewer than n bytes come back only when the peer closed (recv returned b'').
recv_chunk(stream, n) ==
    LET lead == RawLead(stream)
        k == Min(n, Len(lead))
    IN [data |-> SubSeq(lead, 1, k), rest |-> DropRaw(stream, k)]
RecvChunkReady(stream, n) ==
    \/ Len(RawLead(stream)) >= n
    \/ OnlyRaw(stream) /\ conn = "Closed"

\* chunk_info['chunk_size'], chunk_info['chunk_number'] raise KeyError on another message
HeaderUsable(text) ==
    /\ ~Falsy(text)
    /\ ~JsonLoadsRaises(text)
    /\ Has(JsonLoads(text), "chunk_size")
    /\ Has(JsonLoads(text), "chunk_number")

\* one pass of the chunk loop can run: the header (or end of stream) and the bytes are there
ChunkReady ==
    /\ RecvReady
    /\ HeaderUsable(RecvText) => RecvChunkReady(RecvRest, JsonLoads(RecvText).chunk_size)

Ret(ok) == [op |-> cl.op, ok |-> ok, files |-> <<>>]

ClientStep(stream, pc, locals, dest, result, ok, errs) ==
    /\ s2c' = stream
    /\ cpc' = pc
    /\ cl' = locals
    /\ downloads' = dest
    /\ ret' = result
    /\ okFiles' = ok
    /\ errSeen' = errs
    /\ UNCHANGED <<serverDir, c2s, conn, csock, nreq, lastCmd, lastOut>>
    /\ UNCHANGED <<byteVars, multiVars>>

ClientCall(cmd, pc, locals) ==
    /\ cpc = "idle"
    /\ csock = "open"
    /\ nreq < MaxRequests
    /\ c2s' = Append(c2s, Frame(JsonDumps(cmd)))
    /\ nreq' = nreq + 1
    /\ cpc' = pc
    /\ cl' = locals
    /\ okFiles' = <<>>
    /\ errSeen' = 0
    /\ lastCmd' = NoneText
    /\ lastOut' = <<>>
    /\ UNCHANGED <<serverDir, downloads, s2c, conn, csock, ret>>
    /\ UNCHANGED <<byteVars, multiVars>>

\* open(filepath, 'ab'): the file exists and keeps what it held
open_ab(dest, filename) ==
    [dest EXCEPT ![filename] = IF dest[filename].kind = "file" THEN dest[filename]
                               ELSE RegularFile(<<>>)]

\* open(filepath, 'wb'): the file exists and is empty
open_wb(dest, filename) == [dest EXCEPT ![filename] = RegularFile(<<>>)]
\* a write that replaces what the file holds instead of appending to it
f_write_replace(dest, filename, chunk_data) ==
    [dest EXCEPT ![filename] = RegularFile(chunk_data)]

\* f.write(chunk_data)
f_write(dest, filename, chunk_data) ==
    [dest EXCEPT ![filename] = RegularFile(dest[filename].data \o chunk_data)]

\* the call that last returned was a download_file of a missing file, refused
RefusedMissing ==
    /\ cl.op = "download_file"
    /\ cl.aligned
    /\ Lookup(serverDir, cl.req_filename).kind = "missing"
    /\ ~ret.ok

\* total_received += len(chunk_data)
add_received(total_received, chunk_data) == total_received + Len(chunk_data)

\* progress = (total_received / file_size) * 100, as the fraction num / den
progress_of(total_received, file_size) == [num |-> 100 * total_received, den |-> file_size]

(* list_files *)

ListFilesCall ==
    ClientCall([type |-> "list_files"], "lf_recv",
               [IdleLocals EXCEPT !.op = "list_files",
                                  !.aligned = (s2c = <<>> /\ c2s = <<>>), !.before = downloads,
                                  !.prior = (cl.prior \/ RefusedMissing)])

ListFilesRecv ==
    /\ cpc = "lf_recv"
    /\ RecvReady
    /\ LET response_data == RecvText
           usable == /\ ~Falsy(response_data)
                     /\ ~JsonLoadsRaises(response_data)
                     /\ JsonLoads(response_data).type # "error"
                     /\ Has(JsonLoads(response_data), "files")
       IN ClientStep(RecvRest, "idle", cl, downloads,
                     [op |-> cl.op, ok |-> usable,
                      files |-> IF usable THEN JsonLoads(response_data).files ELSE <<>>],
                     okFiles, errSeen)

(* download_file *)

DownloadFileCall(filename) ==
    ClientCall([type |-> "download_file", filename |-> filename], "df_info",
               [IdleLocals EXCEPT !.op = "download_file", !.req_filename = filename,
                                  !.aligned = (s2c = <<>> /\ c2s = <<>>), !.before = downloads,
                                  !.prior = (cl.prior \/ RefusedMissing)])

DownloadFileInfo ==
    /\ cpc = "df_info"
    /\ RecvReady
    /\ LET response_data == RecvText
           rest == RecvRest
       IN IF Falsy(response_data) \/ JsonLoadsRaises(response_data)
          THEN ClientStep(rest, "idle", cl, downloads, Ret(FALSE), okFiles, errSeen)
          ELSE LET response == JsonLoads(response_data)
               IN IF response.type # "file_info"
                  THEN \* an error, or "Unexpected response from server"
                       ClientStep(rest, "idle", cl, downloads, Ret(FALSE), okFiles, errSeen)
                  ELSE ClientStep(rest,
                                  IF response.num_chunks > 0 THEN "df_chunk" ELSE "df_complete",
                                  [cl EXCEPT !.filename = response.filename,
                                             !.file_size = response.file_size,
                                             !.num_chunks = response.num_chunks,
                                             !.chunk_num = 0,
                                             !.total_received = 0,
                                             !.progress = <<>>,
                                             !.opened = cl.opened \cup {response.filename}],
                                  open_wb(downloads, response.filename),
                                  ret, okFiles, errSeen)

\* the chunk loop of download_file returning True where the connection is lost
DownloadFileChunk_lost_is_success ==
    /\ cpc = "df_chunk"
    /\ ChunkReady
    /\ LET chunk_info_data == RecvText
           rest == RecvRest
       IN IF ~HeaderUsable(chunk_info_data)
          THEN ClientStep(rest, "idle", cl, downloads, Ret(FALSE), okFiles, errSeen)
          ELSE LET header == JsonLoads(chunk_info_data)
                   got == recv_chunk(rest, header.chunk_size)
               IN IF Len(got.data) < header.chunk_size
                  THEN ClientStep(got.rest, "idle",
                                  [cl EXCEPT !.lost = TRUE, !.lostOk = okFiles,
                                             !.lostDest = downloads],
                                  downloads, Ret(TRUE), okFiles, errSeen)
                  ELSE IF cl.file_size = 0
                  THEN ClientStep(got.rest, "idle", cl,
                                  f_write(downloads, cl.filename, got.data),
                                  Ret(FALSE), okFiles, errSeen)
                  ELSE ClientStep(got.rest,
                                  IF cl.chunk_num + 1 < cl.num_chunks THEN "df_chunk" ELSE "df_complete",
                                  [cl EXCEPT !.chunk_num = cl.chunk_num + 1,
                                             !.total_received = add_received(cl.total_received, got.data),
                                             !.progress = Append(cl.progress,
                                                 progress_of(add_received(cl.total_received, got.data),
                                                             cl.file_size))],
                                  f_write(downloads, cl.filename, got.data),
                                  ret, okFiles, errSeen)

DownloadFileChunk ==
    /\ cpc = "df_chunk"
    /\ ChunkReady
    /\ LET chunk_info_data == RecvText
           rest == RecvRest
       IN IF ~HeaderUsable(chunk_info_data)
          THEN \* "Failed to receive chunk info", or KeyError
               ClientStep(rest, "idle", cl, downloads, Ret(FALSE), okFiles, errSeen)
          ELSE LET header == JsonLoads(chunk_info_data)
                   got == recv_chunk(rest, header.chunk_size)
               IN IF Len(got.data) < header.chunk_size
                  THEN \* "Connection lost during file transfer"
                       ClientStep(got.rest, "idle",
                                  [cl EXCEPT !.lost = TRUE, !.lostOk = okFiles,
                                             !.lostDest = downloads],
                                  downloads, Ret(FALSE), okFiles, errSeen)
                  ELSE IF cl.file_size = 0
                  THEN \* total_received / file_size raises ZeroDivisionError after the write
                       ClientStep(got.rest, "idle", cl,
                                  f_write(downloads, cl.filename, got.data),
                                  Ret(FALSE), okFiles, errSeen)
                  ELSE ClientStep(got.rest,
                                  IF cl.chunk_num + 1 < cl.num_chunks THEN "df_chunk" ELSE "df_complete",
                                  [cl EXCEPT !.chunk_num = cl.chunk_num + 1,
                                             !.total_received = add_received(cl.total_received, got.data),
                                             !.progress = Append(cl.progress,
                                                 progress_of(add_received(cl.total_received, got.data),
                                                             cl.file_size))],
                                  f_write(downloads, cl.filename, got.data),
                                  ret, okFiles, errSeen)

\* download_file taking any frame after the chunks for the completion message
DownloadFileComplete_any_frame ==
    /\ cpc = "df_complete"
    /\ RecvReady
    /\ LET completion_data == RecvText
           done == ~Falsy(completion_data) /\ ~JsonLoadsRaises(completion_data)
       IN ClientStep(RecvRest, "idle", cl, downloads, Ret(done),
                     IF done THEN Append(okFiles, cl.filename) ELSE okFiles, errSeen)

DownloadFileComplete ==
    /\ cpc = "df_complete"
    /\ RecvReady
    /\ LET completion_data == RecvText
           done == /\ ~Falsy(completion_data)
                   /\ ~JsonLoadsRaises(completion_data)
                   /\ JsonLoads(completion_data).type = "file_complete"
       IN ClientStep(RecvRest, "idle", cl, downloads, Ret(done),
                     IF done THEN Append(okFiles, cl.filename) ELSE okFiles, errSeen)

(* download_multiple_files *)

DownloadMultipleCall(filenames) ==
    ClientCall([type |-> "download_multiple", filenames |-> filenames], "dm_start",
               [IdleLocals EXCEPT !.op = "download_multiple", !.req_filenames = filenames,
                                  !.aligned = (s2c = <<>> /\ c2s = <<>>), !.before = downloads,
                                  !.prior = (cl.prior \/ RefusedMissing)])

\* a loop over range(total_files + 1)
NextFile_one_more(locals) ==
    IF locals.file_index + 1 <= locals.total_files THEN "dm_info" ELSE "dm_final"

\* the for loop over range(total_files) goes on with the next file, or ends
NextFile(locals) ==
    IF locals.file_index + 1 < locals.total_files THEN "dm_info" ELSE "dm_final"

DownloadMultipleStart ==
    /\ cpc = "dm_start"
    /\ RecvReady
    /\ LET response_data == RecvText
           rest == RecvRest
       IN IF Falsy(response_data) \/ JsonLoadsRaises(response_data)
          THEN ClientStep(rest, "idle", cl, downloads, Ret(FALSE), okFiles, errSeen)
          ELSE LET response == JsonLoads(response_data)
               IN IF response.type # "multiple_transfer_start"
                  THEN ClientStep(rest, "idle", cl, downloads, Ret(FALSE), okFiles, errSeen)
                  ELSE ClientStep(rest,
                                  IF response.total_files > 0 THEN "dm_info" ELSE "dm_final",
                                  [cl EXCEPT !.total_files = response.total_files,
                                             !.file_index = 0],
                                  downloads, ret, okFiles, errSeen)

DownloadMultipleInfo ==
    /\ cpc = "dm_info"
    /\ RecvReady
    /\ LET file_info_data == RecvText
           rest == RecvRest
       IN IF Falsy(file_info_data) \/ JsonLoadsRaises(file_info_data)
          THEN \* "Failed to receive file info"
               ClientStep(rest, "idle", cl, downloads, Ret(FALSE), okFiles, errSeen)
          ELSE LET info == JsonLoads(file_info_data)
               IN IF info.type = "error"
                  THEN \* continue
                       ClientStep(rest, NextFile(cl),
                                  [cl EXCEPT !.file_index = cl.file_index + 1],
                                  downloads, ret, okFiles, errSeen + 1)
                  ELSE IF ~(Has(info, "filename") /\ Has(info, "file_size") /\ Has(info, "num_chunks"))
                  THEN \* KeyError
                       ClientStep(rest, "idle", cl, downloads, Ret(FALSE), okFiles, errSeen)
                  ELSE ClientStep(rest,
                                  IF info.num_chunks > 0 THEN "dm_chunk" ELSE "dm_complete",
                                  [cl EXCEPT !.filename = info.filename,
                                             !.file_size = info.file_size,
                                             !.num_chunks = info.num_chunks,
                                             !.chunk_num = 0,
                                             !.total_received = 0,
                                             !.progress = <<>>,
                                             !.opened = cl.opened \cup {info.filename}],
                                  open_wb(downloads, info.filename),
                                  ret, okFiles, errSeen)

DownloadMultipleChunk ==
    /\ cpc = "dm_chunk"
    /\ ChunkReady
    /\ LET chunk_info_data == RecvText
           rest == RecvRest
       IN IF Falsy(chunk_info_data)
          THEN \* "Failed to receive chunk info": break out of the chunk loop
               ClientStep(rest, "dm_complete", cl, downloads, ret, okFiles, errSeen)
          ELSE IF ~HeaderUsable(chunk_info_data)
          THEN \* KeyError
               ClientStep(rest, "idle", cl, downloads, Ret(FALSE), okFiles, errSeen)
          ELSE LET header == JsonLoads(chunk_info_data)
                   got == recv_chunk(rest, header.chunk_size)
                   \* a lost connection only breaks the recv loop: what came is written
                   dest == f_write(downloads, cl.filename, got.data)
                   seen == IF Len(got.data) < header.chunk_size
                           THEN [cl EXCEPT !.lost = TRUE, !.lostOk = okFiles, !.lostDest = dest]
                           ELSE cl
               IN IF cl.file_size = 0
                  THEN \* ZeroDivisionError after the write
                       ClientStep(got.rest, "idle", seen, dest, Ret(FALSE), okFiles, errSeen)
                  ELSE ClientStep(got.rest,
                                  IF cl.chunk_num + 1 < cl.num_chunks THEN "dm_chunk" ELSE "dm_complete",
                                  [seen EXCEPT !.chunk_num = cl.chunk_num + 1,
                                               !.total_received = add_received(cl.total_received, got.data),
                                               !.progress = Append(cl.progress,
                                                   progress_of(add_received(cl.total_received, got.data),
                                                               cl.file_size))],
                                  dest, ret, okFiles, errSeen)

DownloadMultipleComplete ==
    /\ cpc = "dm_complete"
    /\ RecvReady
    /\ LET completion_data == RecvText
           rest == RecvRest
       IN IF ~Falsy(completion_data) /\ JsonLoadsRaises(completion_data)
          THEN ClientStep(rest, "idle", cl, downloads, Ret(FALSE), okFiles, errSeen)
          ELSE LET done == ~Falsy(completion_data)
                           /\ JsonLoads(completion_data).type = "file_complete"
               IN ClientStep(rest, NextFile(cl),
                             [cl EXCEPT !.file_index = cl.file_index + 1],
                             downloads, ret,
                             IF done THEN Append(okFiles, cl.filename) ELSE okFiles,
                             errSeen)

\* download_multiple_files taking any frame after the files for the overall
\* completion message
DownloadMultipleFinal_any_frame ==
    /\ cpc = "dm_final"
    /\ RecvReady
    /\ LET final_completion_data == RecvText
           done == ~Falsy(final_completion_data) /\ ~JsonLoadsRaises(final_completion_data)
       IN ClientStep(RecvRest, "idle",
                     [cl EXCEPT !.final_total =
                          IF done /\ Has(JsonLoads(final_completion_data), "total_files")
                          THEN JsonLoads(final_completion_data).total_files ELSE -1],
                     downloads, Ret(done), okFiles, errSeen)

DownloadMultipleFinal ==
    /\ cpc = "dm_final"
    /\ RecvReady
    /\ LET final_completion_data == RecvText
           done == /\ ~Falsy(final_completion_data)
                   /\ ~JsonLoadsRaises(final_completion_data)
                   /\ JsonLoads(final_completion_data).type = "multiple_transfer_complete"
       IN ClientStep(RecvRest, "idle",
                     [cl EXCEPT !.final_total =
                          IF done /\ Has(JsonLoads(final_completion_data), "total_files")
                          THEN JsonLoads(final_completion_data).total_files ELSE -1],
                     downloads, Ret(done), okFiles, errSeen)

(* disconnect *)

Disconnect ==
    /\ cpc = "idle"
    /\ csock = "open"
    /\ c2s' = Append(c2s, Frame(JsonDumps([type |-> "disconnect"])))
    /\ csock' = "closed"
    /\ cpc' = "closed"
    /\ cl' = [IdleLocals EXCEPT !.op = "disconnect", !.aligned = (s2c = <<>> /\ c2s = <<>>),
                                !.before = downloads]
    /\ ret' = [op |-> "disconnect", ok |-> FALSE, files |-> <<>>]
    /\ okFiles' = <<>>
    /\ errSeen' = 0
    /\ lastCmd' = NoneText
    /\ lastOut' = <<>>
    /\ UNCHANGED <<serverDir, downloads, s2c, conn, nreq>>
    /\ UNCHANGED <<byteVars, multiVars>>

-----------------------------------------------------------------------------
(* Spec: FileTransferServer.handle_client and a FileTransferClient *)

ServedDirs == {d \in [Names -> UNION {Entries(n) : n \in Names}] :
                 \A n \in Names : d[n] \in Entries(n)}
\* the filenames of a download_multiple command: any selection of names, in any
\* order, each name at most once
FilenameLists ==
    {fs \in UNION {[1..n -> Names] : n \in 0..Cardinality(Names)} :
       \A i, j \in DOMAIN fs : i # j => fs[i] # fs[j]}

ByteInit ==
    /\ wire = <<>>
    /\ handed = <<>>
    /\ wclosed = "open"
    /\ rpc = "idle"
    /\ rlen = 0
    /\ rdata = <<>>
    /\ rgot = 0
    /\ results = <<>>

ConnInit ==
    /\ c2s = <<>>
    /\ s2c = <<>>
    /\ conn = "Active"
    /\ csock = "open"
    /\ cpc = "idle"
    /\ cl = [IdleLocals EXCEPT !.before = downloads]
    /\ ret = [op |-> "none", ok |-> FALSE, files |-> <<>>]
    /\ nreq = 0
    /\ okFiles = <<>>
    /\ errSeen = 0
    /\ lastCmd = NoneText
    /\ lastOut = <<>>

Init ==
    /\ serverDir \in ServedDirs
    /\ downloads \in {[n \in Names |-> Absent], [n \in Names |-> RegularFile(OldContent)]}
    /\ ConnInit
    /\ ByteInit
    /\ workers = <<>>

Next ==
    \/ HandleClient
    \/ ListFilesCall
    \/ ListFilesRecv
    \/ \E filename \in Names : DownloadFileCall(filename)
    \/ DownloadFileInfo
    \/ DownloadFileChunk
    \/ DownloadFileComplete
    \/ \E filenames \in FilenameLists : DownloadMultipleCall(filenames)
    \/ DownloadMultipleStart
    \/ DownloadMultipleInfo
    \/ DownloadMultipleChunk
    \/ DownloadMultipleComplete
    \/ DownloadMultipleFinal
    \/ Disconnect

Spec == Init /\ [][Next]_vars

-----------------------------------------------------------------------------
(* Properties of the single-file transfer (under Spec) *)

IsCommand(text, type) ==
    /\ text.text = "object"
    /\ Has(text.obj, "type")
    /\ text.obj.type = type

IsFrameOf(item, type) == item.kind = "frame" /\ IsCommand(item.text, type)

\* the server has served a download_file command that names a regular file
ServedRegularFile ==
    /\ IsCommand(lastCmd, "download_file")
    /\ Has(lastCmd.obj, "filename")
    /\ Lookup(serverDir, lastCmd.obj.filename).kind = "file"

ServedData == serverDir[lastCmd.obj.filename].data

\* bytes (k-1)*chunk_size+1 .. k*chunk_size of a content, as far as it reaches
Slice(data, k) ==
    [i \in 1..(Min(k * chunk_size, Len(data)) - (k - 1) * chunk_size)
       |-> data[(k - 1) * chunk_size + i]]

\* C1: for a DownloadFile request naming an existing served file the server
\* writes exactly: one FileInfo, then for chunk_number 1..num_chunks one
\* ChunkHeader frame immediately followed by that chunk's raw bytes, then one
\* FileComplete with the same filename, and nothing else.
C1_SingleFileSequence ==
    ServedRegularFile =>
        /\ lastOut # <<>>
        /\ IsFrameOf(lastOut[1], "file_info")
        /\ lastOut[1].text.obj.filename = lastCmd.obj.filename
        /\ LET nc == lastOut[1].text.obj.num_chunks
           IN /\ Len(lastOut) = 2 * nc + 2
              /\ \A k \in 1..nc :
                   /\ IsFrameOf(lastOut[2 * k], "file_chunk")
                   /\ lastOut[2 * k].text.obj.chunk_number = k
                   /\ lastOut[2 * k + 1].kind = "raw"
                   /\ lastOut[2 * k + 1].data = Slice(ServedData, k)
              /\ IsFrameOf(lastOut[2 * nc + 2], "file_complete")
              /\ lastOut[2 * nc + 2].text.obj.filename = lastCmd.obj.filename

\* a served file of more than one chunk has been sent
C1_Witness ==
    /\ ServedRegularFile
    /\ Len(ServedData) > chunk_size
    /\ Len(lastOut) >= 6

\* C2: whenever download_file returns success, the destination file holds
\* byte for byte the content of the served file.
C2_RoundTrip ==
    (cpc = "idle" /\ cl.op = "download_file" /\ ret.ok) =>
        /\ serverDir[cl.filename].kind = "file"
        /\ downloads[cl.filename] = serverDir[cl.filename]
        /\ cl.aligned => cl.filename = cl.req_filename

\* a file longer than one chunk was downloaded with success
C2_Witness ==
    /\ cpc = "idle" /\ cl.op = "download_file" /\ ret.ok
    /\ cl.aligned
    /\ Len(serverDir[cl.req_filename].data) > chunk_size
    /\ downloads[cl.req_filename].data = serverDir[cl.req_filename].data

ChunkHeaders(out) == SelectSeq(out, LAMBDA item : IsFrameOf(item, "file_chunk"))

RECURSIVE SumChunkSizes(_)
SumChunkSizes(headers) ==
    IF headers = <<>> THEN 0
    ELSE Head(headers).text.obj.chunk_size + SumChunkSizes(Tail(headers))

\* C3: the declared num_chunks is ceil(file_size / chunk_size); every
\* ChunkHeader's chunk_size is the declared chunk_size except possibly the
\* last, which is file_size - (num_chunks-1)*chunk_size; the chunk sizes sum
\* up to file_size.
C3_ChunkArithmetic ==
    ServedRegularFile =>
        LET info == lastOut[1].text.obj
            headers == ChunkHeaders(lastOut)
            file_size == Len(ServedData)
            nc == info.num_chunks
        IN /\ info.file_size = file_size
           /\ info.chunk_size > 0
           /\ nc >= 0
           /\ nc * info.chunk_size >= file_size
           /\ (nc - 1) * info.chunk_size < file_size
           /\ Len(headers) = nc
           /\ \A k \in 1..Len(headers) :
                headers[k].text.obj.chunk_size =
                    IF k < nc THEN info.chunk_size
                    ELSE file_size - (nc - 1) * info.chunk_size
           /\ SumChunkSizes(headers) = file_size

\* a file whose last chunk is shorter than the others has been sent
C3_Witness ==
    /\ ServedRegularFile
    /\ Len(ChunkHeaders(lastOut)) >= 2
    /\ ChunkHeaders(lastOut)[Len(ChunkHeaders(lastOut))].text.obj.chunk_size < chunk_size

-----------------------------------------------------------------------------
(* SpecPeer: handle_client served by a peer that may send any frame *)

PeerTexts ==
    {[text |-> "invalid"], [text |-> "empty"], [text |-> "array"]}
    \cup {JsonDumps(obj) : obj \in
            {[filename |-> "a"], [type |-> "bogus"], [type |-> "list_files"],
             [type |-> "download_file"], [type |-> "download_multiple"],
             [type |-> "disconnect"]}}
    \cup {JsonDumps([type |-> "download_file", filename |-> n]) : n \in Names}
    \cup {JsonDumps([type |-> "download_multiple", filenames |-> fs]) : fs \in FilenameLists}

\* the peer writes one frame once it has read the answer to the one before
PeerSend(text) ==
    /\ cpc = "peer"
    /\ csock = "open"
    /\ nreq < MaxRequests
    /\ c2s = <<>>
    /\ s2c = <<>>
    /\ c2s' = <<Frame(text)>>
    /\ nreq' = nreq + 1
    /\ lastCmd' = NoneText
    /\ lastOut' = <<>>
    /\ UNCHANGED <<serverDir, downloads, s2c, conn, csock, cpc, cl, ret, okFiles, errSeen>>
    /\ UNCHANGED <<byteVars, multiVars>>

\* the peer reads what the server wrote
PeerRead ==
    /\ cpc = "peer"
    /\ csock = "open"
    /\ s2c # <<>>
    /\ s2c' = <<>>
    /\ UNCHANGED <<serverDir, downloads, c2s, conn, csock, cpc, cl, ret, nreq, okFiles,
                   errSeen, lastCmd, lastOut>>
    /\ UNCHANGED <<byteVars, multiVars>>

\* the peer closes its socket
PeerClose ==
    /\ cpc = "peer"
    /\ csock = "open"
    /\ csock' = "closed"
    /\ UNCHANGED <<serverDir, downloads, c2s, s2c, conn, cpc, cl, ret, nreq, okFiles,
                   errSeen, lastCmd, lastOut>>
    /\ UNCHANGED <<byteVars, multiVars>>

InitPeer ==
    /\ serverDir \in ServedDirs
    /\ downloads = [n \in Names |-> Absent]
    /\ c2s = <<>>
    /\ s2c = <<>>
    /\ conn = "Active"
    /\ csock = "open"
    /\ cpc = "peer"
    /\ cl = [IdleLocals EXCEPT !.before = downloads]
    /\ ret = [op |-> "none", ok |-> FALSE, files |-> <<>>]
    /\ nreq = 0
    /\ okFiles = <<>>
    /\ errSeen = 0
    /\ lastCmd = NoneText
    /\ lastOut = <<>>
    /\ ByteInit
    /\ workers = <<>>

NextPeer ==
    \/ HandleClient
    \/ \E text \in PeerTexts : PeerSend(text)
    \/ PeerRead
    \/ PeerClose

SpecPeer == InitPeer /\ [][NextPeer]_vars

-----------------------------------------------------------------------------
(* Byte level: send_message, socket.send and receive_message (the same code in
   server.py and client.py).  A stream is a sequence of bytes. *)

\* longest message payload, in bytes
MaxPayload == 2
\* buffers handed to the socket on one connection
MaxSends == 2
\* self.buffer_size
buffer_size == 4096

\* message.encode('utf-8') of a message of n characters
PayloadOf(n) == [i \in 1..n |-> 64 + i]
Payloads == {PayloadOf(n) : n \in 0..MaxPayload}

\* len(message_bytes).to_bytes(4, byteorder='big')
to_bytes4(n) ==
    <<(n \div 16777216) % 256, (n \div 65536) % 256, (n \div 256) % 256, n % 256>>

\* int.from_bytes(length_data, byteorder='big'), of however many bytes there are
RECURSIVE from_bytes(_)
from_bytes(bytes) ==
    IF bytes = <<>> THEN 0
    ELSE 256 * from_bytes(SubSeq(bytes, 1, Len(bytes) - 1)) + bytes[Len(bytes)]

\* length_bytes + message_bytes
frame_bytes(message_bytes) == to_bytes4(Len(message_bytes)) \o message_bytes

\* socket.send(buffer) returns how many bytes the socket took: at least one,
\* at most all.  The callers do not look at the returned count.
socket_send_counts(buffer) == IF buffer = <<>> THEN {0} ELSE 1..Len(buffer)

\* send_message(message): self.socket.send(length_bytes + message_bytes)
SendMessage(message_bytes) ==
    /\ wclosed = "open"
    /\ Len(handed) < MaxSends
    /\ \E sent \in socket_send_counts(frame_bytes(message_bytes)) :
         wire' = wire \o SubSeq(frame_bytes(message_bytes), 1, sent)
    /\ handed' = Append(handed, frame_bytes(message_bytes))
    /\ UNCHANGED <<wclosed, rpc, rlen, rdata, rgot, results>>
    /\ UNCHANGED <<protoVars, multiVars>>

\* send_file: client_socket.send(chunk_data)
SendChunkData(chunk_data) ==
    /\ wclosed = "open"
    /\ Len(handed) < MaxSends
    /\ \E sent \in socket_send_counts(chunk_data) :
         wire' = wire \o SubSeq(chunk_data, 1, sent)
    /\ handed' = Append(handed, chunk_data)
    /\ UNCHANGED <<wclosed, rpc, rlen, rdata, rgot, results>>
    /\ UNCHANGED <<protoVars, multiVars>>

ProtoIdle ==
    /\ serverDir = [n \in Names |-> Missing]
    /\ downloads = [n \in Names |-> Absent]
    /\ c2s = <<>>
    /\ s2c = <<>>
    /\ conn = "Active"
    /\ csock = "open"
    /\ cpc = "bytes"
    /\ cl = [IdleLocals EXCEPT !.before = downloads]
    /\ ret = [op |-> "none", ok |-> FALSE, files |-> <<>>]
    /\ nreq = 0
    /\ okFiles = <<>>
    /\ errSeen = 0
    /\ lastCmd = NoneText
    /\ lastOut = <<>>

InitSend == ProtoIdle /\ ByteInit /\ workers = <<>>

NextSend ==
    \/ \E message_bytes \in Payloads : SendMessage(message_bytes)
    \/ \E chunk_data \in Payloads : SendChunkData(chunk_data)

SpecSend == InitSend /\ [][NextSend]_vars

(* receive_message, fed by a peer whose frames reach the stream whole *)

\* the peer writes one whole frame
PeerFrame(message_bytes) ==
    /\ wclosed = "open"
    /\ Len(handed) < MaxSends
    /\ wire' = wire \o frame_bytes(message_bytes)
    /\ handed' = Append(handed, frame_bytes(message_bytes))
    /\ UNCHANGED <<wclosed, rpc, rlen, rdata, rgot, results>>
    /\ UNCHANGED <<protoVars, multiVars>>

\* the peer closes between two frames
PeerShutdown ==
    /\ wclosed = "open"
    /\ wclosed' = "closed"
    /\ UNCHANGED <<wire, handed, rpc, rlen, rdata, rgot, results>>
    /\ UNCHANGED <<protoVars, multiVars>>

\* the peer is gone after only the first `cut` bytes of a frame left it
PeerLostInFrame(message_bytes, cut) ==
    /\ wclosed = "open"
    /\ Len(handed) < MaxSends
    /\ cut \in 1..(Len(frame_bytes(message_bytes)) - 1)
    /\ wire' = wire \o SubSeq(frame_bytes(message_bytes), 1, cut)
    /\ handed' = Append(handed, frame_bytes(message_bytes))
    /\ wclosed' = "cut"
    /\ UNCHANGED <<rpc, rlen, rdata, rgot, results>>
    /\ UNCHANGED <<protoVars, multiVars>>

\* socket.recv(n): some of the bytes that have arrived, at least one, at most n
recv_counts(n) == 1..Min(n, Len(wire))

ReceiveReturn(value, used) ==
    /\ results' = Append(results, [none |-> value.none, data |-> value.data, used |-> used])
    /\ rpc' = "idle"
    /\ rlen' = 0
    /\ rdata' = <<>>
    /\ rgot' = 0

NoneValue == [none |-> TRUE, data |-> <<>>]
Message(bytes) == [none |-> FALSE, data |-> bytes]

\* length_data = recv(4); if not length_data: return None;
\* message_length = int.from_bytes(length_data)
ReceiveLength ==
    /\ rpc = "idle"
    /\ Len(results) <= MaxSends
    /\ IF wire = <<>>
       THEN /\ wclosed # "open"
            /\ ReceiveReturn(NoneValue, 0)
            /\ UNCHANGED wire
       ELSE \E got \in recv_counts(4) :
              /\ wire' = SubSeq(wire, got + 1, Len(wire))
              /\ rlen' = from_bytes(SubSeq(wire, 1, got))
              /\ rdata' = <<>>
              /\ rgot' = got
              /\ rpc' = "body"
              /\ UNCHANGED results
    /\ UNCHANGED <<handed, wclosed>>
    /\ UNCHANGED <<protoVars, multiVars>>

\* while len(message_data) < message_length: chunk = recv(min(remaining, buffer_size));
\* if not chunk: return None
ReceiveBody ==
    /\ rpc = "body"
    /\ Len(rdata) < rlen
    /\ IF wire = <<>>
       THEN /\ wclosed # "open"
            /\ ReceiveReturn(NoneValue, rgot)
            /\ UNCHANGED wire
       ELSE \E got \in recv_counts(Min(rlen - Len(rdata), buffer_size)) :
              /\ wire' = SubSeq(wire, got + 1, Len(wire))
              /\ rdata' = rdata \o SubSeq(wire, 1, got)
              /\ rgot' = rgot + got
              /\ UNCHANGED <<rpc, rlen, results>>
    /\ UNCHANGED <<handed, wclosed>>
    /\ UNCHANGED <<protoVars, multiVars>>

\* return message_data.decode('utf-8')
ReceiveDone ==
    /\ rpc = "body"
    /\ Len(rdata) >= rlen
    /\ ReceiveReturn(Message(rdata), rgot)
    /\ UNCHANGED <<wire, handed, wclosed>>
    /\ UNCHANGED <<protoVars, multiVars>>

NextRecv ==
    \/ \E message_bytes \in Payloads : PeerFrame(message_bytes)
    \/ PeerShutdown
    \/ \E message_bytes \in Payloads, cut \in 1..(3 + MaxPayload) : PeerLostInFrame(message_bytes, cut)
    \/ ReceiveLength
    \/ ReceiveBody
    \/ ReceiveDone

SpecRecv == InitSend /\ [][NextRecv]_vars

-----------------------------------------------------------------------------
(* Properties of the framed channel (under SpecSend and SpecRecv) *)

RECURSIVE Concat(_)
Concat(buffers) == IF buffers = <<>> THEN <<>> ELSE Head(buffers) \o Concat(Tail(buffers))

\* C4: every byte of every control frame and raw chunk payload handed to the
\* socket appears on the channel, in order, also when the socket takes only a
\* prefix of a buffer.
C4_SendComplete == wire = Concat(handed)

\* C5: however the incoming frames are split into partial reads, the i-th
\* receive returns exactly the payload of the i-th frame and takes exactly that
\* frame's bytes from the stream; None comes only after the last frame.
C5_ReceiveExact ==
    wclosed # "cut" =>
        \A i \in DOMAIN results :
            IF i <= Len(handed)
            THEN /\ ~results[i].none
                 /\ results[i].data = SubSeq(handed[i], 5, Len(handed[i]))
                 /\ results[i].used = Len(handed[i])
            ELSE /\ results[i].none
                 /\ results[i].used = 0

\* C6: the end-of-stream outcome (None) is reported only when the peer closed
\* before any byte of a length prefix arrived; a close inside a frame is never
\* reported as that outcome.
C6_TruncatedIsNotEndOfStream ==
    \A i \in DOMAIN results : results[i].none => results[i].used = 0

-----------------------------------------------------------------------------
(* Properties of the connection handler (under SpecPeer) *)

\* a command whose serving raises: malformed JSON, a value that is no object,
\* a missing or unexpected type, a missing field, a served name that cannot be read
BadRequest(text) ==
    \/ text.text \in {"invalid", "array"}
    \/ /\ text.text = "object"
       /\ \/ ~Has(text.obj, "type")
          \/ text.obj.type \notin {"list_files", "download_file", "download_multiple", "disconnect"}
          \/ text.obj.type = "download_file" /\ ~Has(text.obj, "filename")
          \/ text.obj.type = "download_multiple" /\ ~Has(text.obj, "filenames")
          \/ /\ text.obj.type = "download_file"
             /\ Has(text.obj, "filename")
             /\ Lookup(serverDir, text.obj.filename).kind = "dir"

\* C7: an exception or protocol error while serving one command is answered
\* with an Error message and leaves the connection Active.
C7_BadRequestKeepsConnection ==
    (BadRequest(lastCmd) /\ csock = "open") =>
        /\ conn = "Active"
        /\ lastOut # <<>>
        /\ IsFrameOf(lastOut[Len(lastOut)], "error")

-----------------------------------------------------------------------------
(* Properties of the client's request/response exchange (under Spec) *)

\* C8: whenever list_files, download_file or download_multiple_files has
\* returned and the connection is open, nothing of the answer is left unread.
C8_ResponsesDrained ==
    (cpc = "idle" /\ csock = "open" /\ conn = "Active") => (s2c = <<>> /\ c2s = <<>>)

KindOf(filename) == Lookup(serverDir, filename).kind
FilesOrMissing(filenames) ==
    \A i \in DOMAIN filenames : KindOf(filenames[i]) \in {"file", "missing"}
PresentFiles(filenames) == SelectSeq(filenames, LAMBDA f : KindOf(f) = "file")

\* C9: in a multi-file download whose names are served files or missing, the
\* server answers each missing name with an Error and sends every other file in
\* the order given; the client does not abort, and the files it completes are
\* total_files minus the Errors it met, each one with the served content.
C9_MultiWithMissing ==
    /\ (/\ IsCommand(lastCmd, "download_multiple")
        /\ Has(lastCmd.obj, "filenames")
        /\ FilesOrMissing(lastCmd.obj.filenames)) =>
          LET filenames == lastCmd.obj.filenames
              heads == SelectSeq(lastOut, LAMBDA item :
                           IsFrameOf(item, "error") \/ IsFrameOf(item, "file_info"))
              dones == SelectSeq(lastOut, LAMBDA item : IsFrameOf(item, "file_complete"))
          IN /\ Len(heads) = Len(filenames)
             /\ \A i \in DOMAIN filenames :
                  IF KindOf(filenames[i]) = "missing"
                  THEN IsFrameOf(heads[i], "error")
                  ELSE /\ IsFrameOf(heads[i], "file_info")
                       /\ heads[i].text.obj.filename = filenames[i]
             /\ Len(dones) = Len(PresentFiles(filenames))
             /\ \A j \in DOMAIN dones :
                  dones[j].text.obj.filename = PresentFiles(filenames)[j]
    /\ (/\ cpc = "idle"
        /\ cl.op = "download_multiple"
        /\ cl.aligned
        /\ FilesOrMissing(cl.req_filenames)) =>
          /\ ret.ok
          /\ cl.total_files = Len(cl.req_filenames)
          /\ errSeen = Len(cl.req_filenames) - Len(PresentFiles(cl.req_filenames))
          /\ Len(okFiles) = cl.total_files - errSeen
          /\ okFiles = PresentFiles(cl.req_filenames)
          /\ \A i \in DOMAIN okFiles : downloads[okFiles[i]] = serverDir[okFiles[i]]

\* a multi download of one missing name followed by one served file has returned
C9_Witness ==
    /\ cpc = "idle"
    /\ cl.op = "download_multiple"
    /\ cl.aligned
    /\ Len(cl.req_filenames) = 2
    /\ KindOf(cl.req_filenames[1]) = "missing"
    /\ KindOf(cl.req_filenames[2]) = "file"
    /\ Len(serverDir[cl.req_filenames[2]].data) > 0
    /\ ret.ok
    /\ errSeen = 1
    /\ okFiles = <<cl.req_filenames[2]>>

\* C10: a download of a name that does not exist makes the server send
\* exactly one Error and nothing else; the client creates no destination file,
\* leaves the download directory as it was, and reports failure.
C10_MissingFile ==
    /\ (/\ IsCommand(lastCmd, "download_file")
        /\ Has(lastCmd.obj, "filename")
        /\ KindOf(lastCmd.obj.filename) = "missing") =>
          /\ Len(lastOut) = 1
          /\ IsFrameOf(lastOut[1], "error")
    /\ (/\ cl.op = "download_file"
        /\ cl.aligned
        /\ KindOf(cl.req_filename) = "missing") =>
          /\ downloads = cl.before
          /\ cpc = "idle" => ~ret.ok

\* a download of a missing name has returned; a file of that name was in the
\* download directory before
C10_Witness ==
    /\ cpc = "idle"
    /\ cl.op = "download_file"
    /\ cl.aligned
    /\ KindOf(cl.req_filename) = "missing"
    /\ IsCommand(lastCmd, "download_file")
    /\ lastOut # <<>>
    /\ ~ret.ok
    /\ downloads[cl.req_filename] = RegularFile(OldContent)

-----------------------------------------------------------------------------
(* Properties of the empty file, the multi-file answer, the listing and the
   refused request (under Spec) *)

\* C12: for a served file of size 0 the server sends FileInfo with
\* num_chunks = 0 followed directly by FileComplete, no ChunkHeader and no raw
\* bytes; the client creates the destination file with zero bytes, never enters
\* the chunk loop (no progress division) and reports success.
C12_EmptyFile ==
    /\ (ServedRegularFile /\ ServedData = <<>>) =>
          /\ Len(lastOut) = 2
          /\ IsFrameOf(lastOut[1], "file_info")
          /\ lastOut[1].text.obj.file_size = 0
          /\ lastOut[1].text.obj.num_chunks = 0
          /\ IsFrameOf(lastOut[2], "file_complete")
          /\ lastOut[2].text.obj.filename = lastCmd.obj.filename
    /\ (/\ cl.op = "download_file"
        /\ cl.aligned
        /\ Lookup(serverDir, cl.req_filename) = RegularFile(<<>>)) =>
          /\ cpc # "df_chunk"
          /\ cpc = "idle" =>
                /\ ret.ok
                /\ okFiles = <<cl.req_filename>>
                /\ downloads[cl.req_filename] = RegularFile(<<>>)

\* an empty served file was downloaded over an older, non-empty file of that name
C12_Witness ==
    /\ cpc = "idle"
    /\ cl.op = "download_file"
    /\ cl.aligned
    /\ Lookup(serverDir, cl.req_filename) = RegularFile(<<>>)
    /\ cl.before[cl.req_filename] = RegularFile(OldContent)
    /\ downloads[cl.req_filename] = RegularFile(<<>>)
    /\ ret.ok

\* the frames and raw blocks send_file writes for one name
ResponseLen(filename) ==
    CASE KindOf(filename) = "missing" -> 1
      [] KindOf(filename) = "dir" -> 2
      [] KindOf(filename) = "file" ->
            2 * ((Len(serverDir[filename].data) + chunk_size - 1) \div chunk_size) + 2

\* seg is FileInfo, the chunks in order, FileComplete of the regular file `filename`
IsFileResponse(seg, filename) ==
    /\ KindOf(filename) = "file"
    /\ Len(seg) >= 2
    /\ IsFrameOf(seg[1], "file_info")
    /\ seg[1].text.obj.filename = filename
    /\ LET nc == seg[1].text.obj.num_chunks
       IN /\ Len(seg) = 2 * nc + 2
          /\ \A k \in 1..nc :
               /\ IsFrameOf(seg[2 * k], "file_chunk")
               /\ seg[2 * k].text.obj.chunk_number = k
               /\ seg[2 * k + 1] = Raw(Slice(serverDir[filename].data, k))
          /\ IsFrameOf(seg[2 * nc + 2], "file_complete")
          /\ seg[2 * nc + 2].text.obj.filename = filename

IsErrorOnly(seg) == Len(seg) = 1 /\ IsFrameOf(seg[1], "error")

\* FileInfo followed by an Error: the entry exists but cannot be opened for reading
IsBrokenResponse(seg, filename) ==
    /\ KindOf(filename) = "dir"
    /\ Len(seg) = 2
    /\ IsFrameOf(seg[1], "file_info")
    /\ seg[1].text.obj.filename = filename
    /\ IsFrameOf(seg[2], "error")

\* out is, name by name and in the order given, a response of one of the shapes
RECURSIVE ResponsesInOrder(_, _, _)
ResponsesInOrder(out, filenames, broken_allowed) ==
    IF filenames = <<>> THEN out = <<>>
    ELSE LET filename == Head(filenames)
             n == ResponseLen(filename)
             seg == SubSeq(out, 1, n)
         IN /\ Len(out) >= n
            /\ \/ KindOf(filename) = "missing" /\ IsErrorOnly(seg)
               \/ IsFileResponse(seg, filename)
               \/ broken_allowed /\ IsBrokenResponse(seg, filename)
            /\ ResponsesInOrder(SubSeq(out, n + 1, Len(out)), Tail(filenames), broken_allowed)

MultiSequence(broken_allowed) ==
    (IsCommand(lastCmd, "download_multiple") /\ Has(lastCmd.obj, "filenames")) =>
        LET filenames == lastCmd.obj.filenames
        IN /\ Len(lastOut) >= 2
           /\ IsFrameOf(lastOut[1], "multiple_transfer_start")
           /\ lastOut[1].text.obj.total_files = Len(filenames)
           /\ lastOut[1].text.obj.filenames = filenames
           /\ ResponsesInOrder(SubSeq(lastOut, 2, Len(lastOut) - 1), filenames, broken_allowed)
           /\ IsFrameOf(lastOut[Len(lastOut)], "multiple_transfer_complete")
           /\ lastOut[Len(lastOut)].text.obj.total_files = Len(filenames)

\* C13 as stated: MultiTransferStart, then for each filename in order either
\* FileInfo..FileComplete or a single Error, then MultiTransferComplete.
C13_AsStated == MultiSequence(FALSE)

\* C13: for every DownloadMultiple command the server writes one
\* MultiTransferStart (total_files = len(filenames), the same filenames), then
\* the single-file response of each filename in the order given, not
\* interleaved, then one MultiTransferComplete with the same total_files.  A
\* single-file response is FileInfo..FileComplete, a single Error for a missing
\* name, or FileInfo followed by an Error for an entry that cannot be read.
C13_MultiSequence == MultiSequence(TRUE)

\* a DownloadMultiple of an unreadable entry followed by a regular file of more
\* than one chunk has been served
C13_Witness ==
    /\ IsCommand(lastCmd, "download_multiple")
    /\ Has(lastCmd.obj, "filenames")
    /\ Len(lastCmd.obj.filenames) = 2
    /\ KindOf(lastCmd.obj.filenames[1]) = "dir"
    /\ KindOf(lastCmd.obj.filenames[2]) = "file"
    /\ Len(serverDir[lastCmd.obj.filenames[2]].data) > chunk_size
    /\ Len(lastOut) = 10

\* the regular files of the served directory
RegularFiles == {n \in Names : KindOf(n) = "file"}

\* C18: ListFiles is answered with one FileList and no Error; its files are
\* exactly the regular files of the served directory, one entry each with the
\* file's size (none for an empty directory, none for a subdirectory); the
\* connection stays Active and list_files returns these entries.
C18_ListFiles ==
    /\ IsCommand(lastCmd, "list_files") =>
          /\ Len(lastOut) = 1
          /\ IsFrameOf(lastOut[1], "file_list")
          /\ LET files == lastOut[1].text.obj.files
             IN /\ Len(files) = Cardinality(RegularFiles)
                /\ {files[i].name : i \in DOMAIN files} = RegularFiles
                /\ \A i \in DOMAIN files :
                     files[i].size = Len(serverDir[files[i].name].data)
          /\ csock = "open" => conn = "Active"
    /\ (cpc = "idle" /\ cl.op = "list_files" /\ cl.aligned) =>
          /\ ret.ok
          /\ Len(ret.files) = Cardinality(RegularFiles)
          /\ {ret.files[i].name : i \in DOMAIN ret.files} = RegularFiles

\* the listing of a served directory that holds nothing but a subdirectory has
\* returned
C18_Witness ==
    /\ cpc = "idle"
    /\ cl.op = "list_files"
    /\ cl.aligned
    /\ RegularFiles = {}
    /\ \E n \in Names : KindOf(n) = "dir"
    /\ IsCommand(lastCmd, "list_files")
    /\ lastOut[1].text.obj.files = <<>>
    /\ ret.ok
    /\ conn = "Active"

\* C15: an Error answer to a DownloadFile of a missing file leaves the
\* connection Active and the client able to go on; every command that follows
\* on the connection is served as on a fresh connection, and the following
\* list_files, download_file and download_multiple_files end as they would there.
C15_ErrorKeepsConnection ==
    /\ (/\ IsCommand(lastCmd, "download_file")
        /\ Has(lastCmd.obj, "filename")
        /\ KindOf(lastCmd.obj.filename) = "missing"
        /\ csock = "open") => conn = "Active"
    /\ (cpc = "idle" /\ RefusedMissing) => (csock = "open" /\ conn = "Active")
    /\ (cl.prior /\ lastCmd # NoneText /\ csock = "open") =>
          /\ conn = "Active"
          /\ \E order \in ListdirOrders(serverDir) :
               lastOut = serve_command(serverDir, lastCmd, order).out
    /\ (cl.prior /\ cl.aligned /\ cpc = "idle") =>
          /\ cl.op = "list_files" =>
                ret.ok /\ {ret.files[i].name : i \in DOMAIN ret.files} = RegularFiles
          /\ (cl.op = "download_file" /\ KindOf(cl.req_filename) = "file") =>
                ret.ok /\ downloads[cl.req_filename] = serverDir[cl.req_filename]
          /\ (cl.op = "download_file" /\ KindOf(cl.req_filename) = "missing") => ~ret.ok
          /\ (cl.op = "download_multiple" /\ FilesOrMissing(cl.req_filenames)) =>
                /\ ret.ok
                /\ okFiles = PresentFiles(cl.req_filenames)
                /\ \A i \in DOMAIN okFiles : downloads[okFiles[i]] = serverDir[okFiles[i]]

\* after a refused download of a missing file, a regular file of more than one
\* chunk was downloaded on the same connection
C15_Witness ==
    /\ cl.prior
    /\ cl.aligned
    /\ cpc = "idle"
    /\ cl.op = "download_file"
    /\ KindOf(cl.req_filename) = "file"
    /\ Len(serverDir[cl.req_filename].data) > chunk_size
    /\ ret.ok
    /\ downloads[cl.req_filename] = serverDir[cl.req_filename]

-----------------------------------------------------------------------------
(* SpecClient: one call of the FileTransferClient on a fresh connection, against
   a server that may be faulty: it may close the connection anywhere (between
   two frames, after a chunk header, inside the raw bytes of a chunk), send an
   error or a frame of another type in place of any frame, or announce a
   total_files that differs. *)

ErrorFrame == Frame(error_response("failed"))
OtherFrame == Frame(JsonDumps([type |-> "bogus"]))

\* what arrives of a raw block when the connection is lost inside it
RawCuts(data) == {SubSeq(data, 1, k) : k \in 1..(Len(data) - 1)}

FramesOf(out) == {k \in DOMAIN out : out[k].kind = "frame"}
RawsOf(out) == {k \in DOMAIN out : out[k].kind = "raw"}

\* the same frame with another total_files
Recount(item, total_files) ==
    Frame(JsonDumps([item.text.obj EXCEPT !.total_files = total_files]))

CountedFrames(out) ==
    {k \in FramesOf(out) :
        out[k].text.obj.type \in {"multiple_transfer_start", "multiple_transfer_complete"}}

\* what reaches the client of the answer `out`, and whether the server closes after it
ServerAnswers(out) ==
    {[items |-> out, close |-> FALSE]}
    \cup {[items |-> SubSeq(out, 1, k), close |-> TRUE] : k \in 0..Len(out)}
    \cup UNION {{[items |-> SubSeq(out, 1, k - 1) \o <<Raw(part)>>, close |-> TRUE] :
                    part \in RawCuts(out[k].data)} : k \in RawsOf(out)}
    \cup {[items |-> [out EXCEPT ![k] = f], close |-> FALSE] :
             k \in FramesOf(out), f \in {ErrorFrame, OtherFrame}}
    \cup {[items |-> [out EXCEPT ![k] = Recount(out[k], n)], close |-> FALSE] :
             k \in CountedFrames(out), n \in 0..Cardinality(Names)}

\* the server end of the connection as the client meets it
ServerPeer ==
    /\ conn = "Active"
    /\ c2s # <<>>
    /\ \E order \in ListdirOrders(serverDir) :
         \E answer \in ServerAnswers(serve_command(serverDir, Head(c2s).text, order).out) :
            /\ s2c' = s2c \o answer.items
            /\ conn' = IF answer.close THEN "Closed" ELSE "Active"
            /\ lastOut' = answer.items
    /\ lastCmd' = Head(c2s).text
    /\ c2s' = Tail(c2s)
    /\ UNCHANGED <<serverDir, downloads, csock, cpc, cl, ret, nreq, okFiles, errSeen>>
    /\ UNCHANGED <<byteVars, multiVars>>

NextClient ==
    \/ ServerPeer
    \/ nreq = 0 /\ ListFilesCall
    \/ \E filename \in Names : nreq = 0 /\ DownloadFileCall(filename)
    \/ \E filenames \in FilenameLists : nreq = 0 /\ DownloadMultipleCall(filenames)
    \/ ListFilesRecv
    \/ DownloadFileInfo
    \/ DownloadFileChunk
    \/ DownloadFileComplete
    \/ DownloadMultipleStart
    \/ DownloadMultipleInfo
    \/ DownloadMultipleChunk
    \/ DownloadMultipleComplete
    \/ DownloadMultipleFinal

SpecClient == Init /\ [][NextClient]_vars

-----------------------------------------------------------------------------
(* Properties of the client's calls against any server (under SpecClient) *)

\* C11: once the peer has closed inside a chunk (after the ChunkHeader, before
\* all declared raw bytes), in download_file and in download_multiple_files:
\* no success is reported for the file, no later frame counts as its
\* FileComplete, no later file is written, and the call returns failure.
C11_LostInChunk ==
    cl.lost =>
        /\ okFiles = cl.lostOk
        /\ \A i \in DOMAIN okFiles : okFiles[i] # cl.filename
        /\ downloads = cl.lostDest
        /\ cpc = "idle" => ~ret.ok

\* a multi download of two files lost the connection inside the first chunk of
\* the first file and has returned
C11_Witness ==
    /\ cl.lost
    /\ cpc = "idle"
    /\ cl.op = "download_multiple"
    /\ Len(cl.req_filenames) = 2
    /\ cl.total_files = 2
    /\ cl.filename = cl.req_filenames[1]
    /\ downloads[cl.filename].kind = "file"
    /\ Len(downloads[cl.filename].data) = 1
    /\ cl.before[cl.req_filenames[2]] = Absent
    /\ downloads[cl.req_filenames[2]] = Absent
    /\ okFiles = <<>>
    /\ ~ret.ok

\* the client takes a frame from the stream while an error frame is at its head
TakesError ==
    /\ s2c # <<>>
    /\ IsFrameOf(Head(s2c), "error")
    /\ Len(s2c') < Len(s2c)

\* C17: an error frame arriving where a success frame is expected (FileList,
\* FileInfo, ChunkHeader, FileComplete, MultiTransferStart,
\* MultiTransferComplete) ends the pending operation: nothing but the error
\* frame is taken for it, no success is reported and no file is touched for it;
\* the call returns failure, except that inside a multi download an error in
\* place of a FileInfo or FileComplete ends that file only.
C17_ErrorShortCircuits ==
    [][TakesError =>
          /\ s2c' = Tail(s2c)
          /\ okFiles' = okFiles
          /\ downloads' = downloads
          /\ IF cpc \in {"dm_info", "dm_complete"}
             THEN /\ cpc' = NextFile(cl)
                  /\ cl'.file_index = cl.file_index + 1
             ELSE /\ cpc' = "idle"
                  /\ ~ret'.ok
                  /\ ret'.files = <<>>]_vars

\* download_file has returned on an error frame that stood in place of the
\* first ChunkHeader; the chunk's bytes and the rest were left alone
C17_Witness ==
    /\ cpc = "idle"
    /\ cl.op = "download_file"
    /\ ~ret.ok
    /\ cl.num_chunks > 0
    /\ cl.chunk_num = 0
    /\ Len(lastOut) >= 4
    /\ IsFrameOf(lastOut[1], "file_info")
    /\ lastOut[2] = ErrorFrame
    /\ s2c = SubSeq(lastOut, 3, Len(lastOut))
    /\ downloads[cl.filename] = RegularFile(<<>>)
    /\ okFiles = <<>>

\* C19: download_file returns success exactly when, a FileInfo and all
\* num_chunks chunks having been received, the next frame received is a
\* file_complete; it returns failure when that frame is absent, is an Error or
\* has another type, and whenever it returns earlier.
C19_SuccessNeedsFileComplete ==
    [][(cl.op = "download_file" /\ cpc # "idle" /\ cpc' = "idle") =>
          (ret'.ok <=> /\ cpc = "df_complete"
                       /\ cl.chunk_num = cl.num_chunks
                       /\ s2c # <<>>
                       /\ IsFrameOf(Head(s2c), "file_complete"))]_vars

\* download_file has received the FileInfo and both chunks of a file, then a
\* frame of another type, and has returned failure
C19_Witness ==
    /\ cpc = "idle"
    /\ cl.op = "download_file"
    /\ ~ret.ok
    /\ cl.num_chunks = 2
    /\ cl.chunk_num = cl.num_chunks
    /\ Len(lastOut) = 6
    /\ lastOut[6] = OtherFrame
    /\ s2c = <<>>
    /\ downloads[cl.filename] = serverDir[cl.filename]

\* C20: download_multiple_files has gone through exactly total_files files when
\* it returns success, and returns success only on a MultiTransferComplete whose
\* total_files equals the total_files of the MultiTransferStart it received.
C20_SuccessNeedsSameCount ==
    (cpc = "idle" /\ cl.op = "download_multiple" /\ ret.ok) =>
        /\ cl.file_index = cl.total_files
        /\ cl.final_total = cl.total_files

-----------------------------------------------------------------------------
(* Properties of the connection's state machine (under SpecPeer) *)

\* handle_client takes a step: it reads a command, or meets the end of the stream
HandlerStep == conn = "Active" /\ (Len(c2s') < Len(c2s) \/ conn' = "Closed")

\* C14: a connection handler is Active until it receives Disconnect or the end
\* of the stream (it leaves Active on nothing else, a failed write to a peer
\* that is gone aside); on either it moves to Closed and sends no reply; once
\* Closed it stays Closed, reads no further command and writes nothing.
C14_ActiveUntilDisconnect ==
    [][/\ (conn = "Active" /\ conn' = "Closed") =>
            \/ lastCmd' = NoneText
            \/ IsCommand(lastCmd', "disconnect")
            \/ csock = "closed"
       /\ (HandlerStep /\ (c2s = <<>> \/ IsCommand(Head(c2s).text, "disconnect"))) =>
            /\ conn' = "Closed"
            /\ s2c' = s2c
       /\ conn = "Closed" =>
            /\ conn' = "Closed"
            /\ Len(c2s') >= Len(c2s)
            /\ Len(s2c') <= Len(s2c)]_vars

-----------------------------------------------------------------------------
(* SpecMulti: start_server with several accepted connections, one
   handle_client thread each, over one served directory.  A thread takes one
   step at a time: it receives a command, or hands one message to its socket. *)

\* commands a peer writes on one connection
MaxPeerCmds == 1

Conns == {1, 2}

\* the served directories of this level: name "b" is not served
MultiDirs == {d \in ServedDirs : d["b"] = Missing}

\* what the peers send: a listing, a download, a download that is refused, a
\* disconnect, and a text that is no JSON
MultiTexts ==
    {[text |-> "invalid"]}
    \cup {JsonDumps(obj) : obj \in {[type |-> "list_files"], [type |-> "disconnect"]}}
    \cup {JsonDumps([type |-> "download_file", filename |-> n]) : n \in Names}

\* a connection returned by server_socket.accept(), with its thread started
Accepted ==
    [state |-> "Active",   \* the thread is in its loop ("Active") or has left it ("Closed")
     inq   |-> <<>>,       \* command frames the peer wrote, not yet received
     peer  |-> "open",     \* the peer's end of the connection
     todo  |-> <<>>,       \* messages of the running command not yet written
     rcvd  |-> <<>>,       \* what receive_message returned, call by call
     sent  |-> <<>>]       \* the messages written on the connection

\* finally: client_socket.close(), seen from all connections: the others are
\* closed with it
close_every_socket(ws, c) == [d \in DOMAIN ws |-> [ws[d] EXCEPT !.state = "Closed", !.todo = <<>>]]

\* finally: client_socket.close()
close_socket(ws, c) == [ws EXCEPT ![c].state = "Closed", ![c].todo = <<>>]

MultiStep(ws) ==
    /\ workers' = ws
    /\ UNCHANGED <<protoVars, byteVars>>

\* a peer writes a command on its connection
MultiPeerSend(c, text) ==
    /\ workers[c].peer = "open"
    /\ Len(workers[c].rcvd) + Len(workers[c].inq) < MaxPeerCmds
    /\ MultiStep([workers EXCEPT ![c].inq = Append(@, text)])

\* a peer closes its end
MultiPeerClose(c) ==
    /\ workers[c].peer = "open"
    /\ MultiStep([workers EXCEPT ![c].peer = "closed"])

\* the thread of connection c: command_data = self.receive_message(client_socket)
\* and the dispatch on it
WorkerReceive(c) ==
    /\ workers[c].state = "Active"
    /\ workers[c].todo = <<>>
    /\ workers[c].inq # <<>> \/ workers[c].peer = "closed"
    /\ LET w == workers[c]
           command_data == IF w.inq # <<>> THEN Head(w.inq) ELSE NoneText
       IN \E order \in ListdirOrders(serverDir) :
            LET r == serve_command(serverDir, command_data, order)
                got == [workers EXCEPT ![c].inq = IF w.inq # <<>> THEN Tail(w.inq) ELSE w.inq,
                                       ![c].rcvd = Append(w.rcvd, command_data),
                                       ![c].todo = r.out]
            IN MultiStep(IF r.close THEN close_socket(got, c) ELSE got)

\* the thread of connection c hands the next message of its answer to its
\* socket; when the peer is gone the write may raise, which ends the thread
WorkerSend(c) ==
    /\ workers[c].state = "Active"
    /\ workers[c].todo # <<>>
    /\ \/ MultiStep([workers EXCEPT ![c].sent = Append(@, Head(workers[c].todo)),
                                   ![c].todo = Tail(@)])
       \/ /\ workers[c].peer = "closed"
          /\ MultiStep(close_socket(workers, c))

InitMulti ==
    /\ serverDir \in MultiDirs
    /\ downloads = [n \in Names |-> Absent]
    /\ c2s = <<>>
    /\ s2c = <<>>
    /\ conn = "Active"
    /\ csock = "open"
    /\ cpc = "multi"
    /\ cl = [IdleLocals EXCEPT !.before = downloads]
    /\ ret = [op |-> "none", ok |-> FALSE, files |-> <<>>]
    /\ nreq = 0
    /\ okFiles = <<>>
    /\ errSeen = 0
    /\ lastCmd = NoneText
    /\ lastOut = <<>>
    /\ ByteInit
    /\ workers = [c \in Conns |-> Accepted]

NextMulti ==
    \/ \E c \in Conns, text \in MultiTexts : MultiPeerSend(c, text)
    \/ \E c \in Conns : MultiPeerClose(c)
    \/ \E c \in Conns : WorkerReceive(c)
    \/ \E c \in Conns : WorkerSend(c)

SpecMulti == InitMulti /\ [][NextMulti]_vars

-----------------------------------------------------------------------------
(* Properties of concurrently served connections (under SpecMulti) *)

IsPrefix(p, q) == Len(p) <= Len(q) /\ p = SubSeq(q, 1, Len(p))

\* the commands of cmds that handle_client serves: those up to the first one
\* that makes it leave its loop
Closes(command_data) == serve_command(serverDir, command_data, <<>>).close

\* the message sequences a connection alone, on a server with no other
\* connection, writes for the received commands cmds
RECURSIVE AloneWrites(_)
AloneWrites(cmds) ==
    IF cmds = <<>> THEN {<<>>}
    ELSE LET first == {serve_command(serverDir, Head(cmds), order).out :
                          order \in ListdirOrders(serverDir)}
         IN IF Closes(Head(cmds)) THEN first
            ELSE {a \o b : a \in first, b \in AloneWrites(Tail(cmds))}

\* C16: under every interleaving of the threads, what is written on a
\* connection is what that connection's own commands and the served directory
\* give (all of it, or a prefix once the connection is closed), and a
\* connection is Closed only for a command of its own or for its own peer
\* having gone: no close, failed request or transport error on another
\* connection shows in it.
C16_ConnectionsIndependent ==
    \A c \in Conns :
        LET w == workers[c]
        IN /\ \E alone \in AloneWrites(w.rcvd) :
                /\ IsPrefix(w.sent, alone)
                /\ w.state = "Active" => w.sent \o w.todo = alone
           /\ w.state = "Closed" =>
                \/ w.rcvd # <<>> /\ Closes(w.rcvd[Len(w.rcvd)])
                \/ w.peer = "closed"

\* one connection was closed on a text that is no JSON while the other was in
\* the middle of sending a file, and the other has sent the whole file since
C16_Witness ==
    \E c, d \in Conns :
        /\ c # d
        /\ workers[c].state = "Closed"
        /\ workers[c].rcvd = <<[text |-> "invalid"]>>
        /\ workers[c].peer = "open"
        /\ workers[d].state = "Active"
        /\ workers[d].peer = "open"
        /\ workers[d].todo = <<>>
        /\ Len(workers[d].sent) >= 6
        /\ IsFrameOf(workers[d].sent[Len(workers[d].sent)], "file_complete")

-----------------------------------------------------------------------------
(* A served file that changes while it is sent (SpecChange)

   send_file asks os.path.getsize first and opens and reads the file
   afterwards; nothing keeps another process from rewriting the file in
   between.  SpecChange is Spec for one download call, with one more step of
   the server: a download_file served from a file that holds other bytes when
   it is opened than it had at the size query. *)

\* send_file from os.path.getsize on, for a regular file that had file_size
\* bytes at the size query and holds read_data when it is opened
send_file_changing(filename, file_size, read_data) ==
    send_message(JsonDumps(file_info(filename, file_size)))
    \o send_chunks(read_data, 0, 0, num_chunks_of(file_size))
    \o send_message(JsonDumps(completion_msg(filename)))

\* the lengths a served file can be cut or extended to
ChangedContents(name) == {FileData(name, n) : n \in 0..MaxFileSize}

\* handle_client serving a download_file while the file is rewritten between
\* os.path.getsize and open
HandleClientFileChanges ==
    /\ conn = "Active"
    /\ csock = "open"
    /\ c2s # <<>>
    /\ LET command_data == Head(c2s).text
       IN /\ IsCommand(command_data, "download_file")
          /\ Has(command_data.obj, "filename")
          /\ Lookup(serverDir, command_data.obj.filename).kind = "file"
          /\ LET filename == command_data.obj.filename
                 entry == serverDir[filename]
             IN \E read_data \in ChangedContents(filename) \ {entry.data} :
                  LET out == send_file_changing(filename, Len(entry.data), read_data)
                  IN /\ serverDir' = [serverDir EXCEPT ![filename] = RegularFile(read_data)]
                     /\ s2c' = s2c \o out
                     /\ lastCmd' = command_data
                     /\ lastOut' = out
    /\ c2s' = Tail(c2s)
    /\ UNCHANGED <<downloads, conn, csock, cpc, cl, ret, nreq, okFiles, errSeen>>
    /\ UNCHANGED <<byteVars, multiVars>>

NextChange ==
    \/ HandleClient
    \/ HandleClientFileChanges
    \/ \E filename \in Names : nreq = 0 /\ DownloadFileCall(filename)
    \/ DownloadFileInfo
    \/ DownloadFileChunk
    \/ DownloadFileComplete
    \/ \E filenames \in FilenameLists : nreq = 0 /\ DownloadMultipleCall(filenames)
    \/ DownloadMultipleStart
    \/ DownloadMultipleInfo
    \/ DownloadMultipleChunk
    \/ DownloadMultipleComplete
    \/ DownloadMultipleFinal

SpecChange == Init /\ [][NextChange]_vars

\* the positions of the FileInfo frames of an output
InfoPositions(out) == {i \in DOMAIN out : IsFrameOf(out[i], "file_info")}
\* the FileInfo a position of an output comes after (0: none)
InfoBefore(out, j) ==
    LET earlier == {i \in InfoPositions(out) : i < j}
    IN IF earlier = {} THEN 0 ELSE CHOOSE i \in earlier : \A k \in earlier : k <= i
\* the ChunkHeaders of the same transfer up to and including position j
HeadersUpTo(out, j) ==
    Cardinality({k \in (InfoBefore(out, j) + 1)..j : IsFrameOf(out[k], "file_chunk")})
\* the raw bytes that follow position j before the next frame
RawBytesAfter(out, j) ==
    IF j < Len(out) /\ out[j + 1].kind = "raw" THEN Len(out[j + 1].data) ELSE 0

\* C21: within one file transfer the ChunkHeaders carry chunk_number 1, 2, ...,
\* num_chunks in that order, the total_chunks of every header is the num_chunks
\* of the FileInfo before it, and the chunk_size of every header lies between 0
\* and the chunk_size the FileInfo declared and is the number of raw bytes
\* that follow the header; a completed transfer has num_chunks headers.
C21_ChunkHeaders ==
    \A j \in DOMAIN lastOut :
      /\ IsFrameOf(lastOut[j], "file_chunk") =>
           /\ InfoBefore(lastOut, j) > 0
           /\ LET header == lastOut[j].text.obj
                  info == lastOut[InfoBefore(lastOut, j)].text.obj
              IN /\ header.chunk_number = HeadersUpTo(lastOut, j)
                 /\ header.chunk_number <= info.num_chunks
                 /\ header.total_chunks = info.num_chunks
                 /\ 0 <= header.chunk_size
                 /\ header.chunk_size <= info.chunk_size
                 /\ header.chunk_size = RawBytesAfter(lastOut, j)
      /\ IsFrameOf(lastOut[j], "file_complete") =>
           /\ InfoBefore(lastOut, j) > 0
           /\ HeadersUpTo(lastOut, j) = lastOut[InfoBefore(lastOut, j)].text.obj.num_chunks
      /\ lastOut[j].kind = "raw" => j > 1 /\ IsFrameOf(lastOut[j - 1], "file_chunk")

\* a completed transfer of several chunks whose last chunk is shorter than the
\* declared chunk_size
C21_Witness ==
    /\ \E j \in DOMAIN lastOut :
         /\ IsFrameOf(lastOut[j], "file_chunk")
         /\ lastOut[j].text.obj.chunk_number = 2
         /\ lastOut[j].text.obj.chunk_size = 1
    /\ lastOut # <<>>
    /\ IsFrameOf(lastOut[Len(lastOut)], "file_complete")

\* C24: whenever download_file returns success, the bytes written to the
\* destination are as many as the file_size of the FileInfo and the chunks
\* consumed are as many as its num_chunks, also when the served file's length
\* changes between the server's size query and its reads.
C24_SuccessMatchesFileInfo ==
    (cpc = "idle" /\ ret.op = "download_file" /\ ret.ok /\ cl.aligned) =>
       /\ cl.chunk_num = cl.num_chunks
       /\ downloads[cl.filename].kind = "file"
       /\ Len(downloads[cl.filename].data) = cl.file_size

\* the call is receiving, or has received, the chunks of a file
ReceivingFile ==
    /\ cl.op \in {"download_file", "download_multiple"}
    /\ cl.filename # ""

\* the file the call is receiving has had its last chunk
AfterFinalChunk ==
    /\ ReceivingFile
    /\ cl.num_chunks > 0
    /\ cl.chunk_num = cl.num_chunks

\* C22: while the client receives a file with file_size > 0, the progress after
\* chunk i is 100 * (bytes of chunks 1..i) / file_size, does not decrease from
\* one chunk to the next, never exceeds 100 and is exactly 100 after the final
\* chunk; with file_size = 0 no progress is computed.
C22_Progress ==
    ReceivingFile =>
      /\ cl.file_size = 0 => cl.progress = <<>>
      /\ Len(cl.progress) = cl.chunk_num
      /\ \A i \in DOMAIN cl.progress :
           /\ cl.progress[i].den = cl.file_size
           /\ cl.progress[i].den > 0
           /\ cl.progress[i].num <= 100 * cl.progress[i].den
           /\ i > 1 => cl.progress[i - 1].num <= cl.progress[i].num
      /\ cl.progress # <<>> =>
           /\ downloads[cl.filename].kind = "file"
           /\ cl.progress[Len(cl.progress)].num = 100 * Len(downloads[cl.filename].data)
      /\ AfterFinalChunk =>
           cl.progress[Len(cl.progress)].num = 100 * cl.progress[Len(cl.progress)].den

\* the bytes the server has to serve under a name (a directory has none)
ServedContent(name) ==
    IF serverDir[name].kind = "file" THEN serverDir[name].data ELSE <<>>

\* C25: at every point of a download after the FileInfo of a file was
\* received, in download_file and in download_multiple_files, the destination
\* file holds a prefix of the served file's content; so after a failed
\* download it holds a (possibly empty) prefix of the served bytes and nothing
\* of what it held before the download began.
C25_DestinationIsPrefix ==
    \A name \in cl.opened :
      /\ downloads[name].kind = "file"
      /\ IsPrefix(downloads[name].data, ServedContent(name))

\* a failed download that left a part of the served file where other content
\* had been
C25_Witness ==
    /\ cpc = "idle"
    /\ cl.op \in {"download_file", "download_multiple"}
    /\ ~ret.ok
    /\ \E name \in cl.opened :
         /\ cl.before[name] = RegularFile(OldContent)
         /\ downloads[name].data # <<>>
         /\ Len(downloads[name].data) < Len(ServedContent(name))

-----------------------------------------------------------------------------
(* One connection whose socket buffer is bounded (SpecServe)

   The thread of SpecMulti, on one connection, writing to a socket that takes
   a message only while its buffer has room: sendall blocks until the peer has
   read.  s2c is the buffer.  The thread is scheduled again and again and the
   peer, while it has not closed, keeps reading: both are fairness conditions
   of SpecServe. *)

\* messages the socket buffer holds before a write blocks
SocketBuffer == 1

\* what the peer sends: the texts of SpecMulti and download_multiple commands
ServeTexts ==
    MultiTexts
    \cup {JsonDumps([type |-> "download_multiple", filenames |-> fs]) : fs \in FilenameLists}

\* a write that blocks for ever once the thread has written its first message
WorkerSendBlocking_stuck(c) ==
    /\ workers[c].state = "Active"
    /\ workers[c].todo # <<>>
    /\ workers[c].sent = <<>>
    /\ Len(s2c) < SocketBuffer
    /\ workers' = [workers EXCEPT ![c].sent = Append(@, Head(workers[c].todo)),
                                  ![c].todo = Tail(@)]
    /\ s2c' = Append(s2c, Head(workers[c].todo))
    /\ UNCHANGED <<serverDir, downloads, c2s, conn, csock, cpc, cl, ret, nreq,
                   okFiles, errSeen, lastCmd, lastOut>>
    /\ UNCHANGED byteVars

\* the thread hands the next message of its answer to its socket: sendall
\* returns once the buffer has taken it; when the peer is gone the message is
\* dropped or the write raises, which ends the thread
WorkerSendBlocking(c) ==
    /\ workers[c].state = "Active"
    /\ workers[c].todo # <<>>
    /\ \/ /\ workers[c].peer = "open"
          /\ Len(s2c) < SocketBuffer
          /\ workers' = [workers EXCEPT ![c].sent = Append(@, Head(workers[c].todo)),
                                        ![c].todo = Tail(@)]
          /\ s2c' = Append(s2c, Head(workers[c].todo))
       \/ /\ workers[c].peer = "closed"
          /\ workers' = [workers EXCEPT ![c].sent = Append(@, Head(workers[c].todo)),
                                        ![c].todo = Tail(@)]
          /\ s2c' = s2c
       \/ /\ workers[c].peer = "closed"
          /\ workers' = close_socket(workers, c)
          /\ s2c' = s2c
    /\ UNCHANGED <<serverDir, downloads, c2s, conn, csock, cpc, cl, ret, nreq,
                   okFiles, errSeen, lastCmd, lastOut>>
    /\ UNCHANGED byteVars

\* the peer reads one message from its socket
PeerReads(c) ==
    /\ workers[c].peer = "open"
    /\ s2c # <<>>
    /\ s2c' = Tail(s2c)
    /\ UNCHANGED <<serverDir, downloads, c2s, conn, csock, cpc, cl, ret, nreq,
                   okFiles, errSeen, lastCmd, lastOut>>
    /\ UNCHANGED <<byteVars, multiVars>>

InitServe ==
    /\ serverDir \in ServedDirs
    /\ downloads = [n \in Names |-> Absent]
    /\ c2s = <<>>
    /\ s2c = <<>>
    /\ conn = "Active"
    /\ csock = "open"
    /\ cpc = "serve"
    /\ cl = [IdleLocals EXCEPT !.before = downloads]
    /\ ret = [op |-> "none", ok |-> FALSE, files |-> <<>>]
    /\ nreq = 0
    /\ okFiles = <<>>
    /\ errSeen = 0
    /\ lastCmd = NoneText
    /\ lastOut = <<>>
    /\ ByteInit
    /\ workers = [c \in {1} |-> Accepted]

NextServe ==
    \/ \E text \in ServeTexts : MultiPeerSend(1, text)
    \/ MultiPeerClose(1)
    \/ WorkerReceive(1)
    \/ WorkerSendBlocking(1)
    \/ PeerReads(1)

SpecServe ==
    /\ InitServe
    /\ [][NextServe]_vars
    /\ WF_vars(WorkerSendBlocking(1))
    /\ WF_vars(PeerReads(1))

\* the thread is inside a request: it has received a command of a recognized
\* type and has not written all of its answer
Serving == workers[1].state = "Active" /\ workers[1].todo # <<>>

\* the message types that end the answer to a request
TerminalTypes == {"file_list", "error", "file_complete", "multiple_transfer_complete"}

\* the thread has written the terminal message of the request and is back at
\* receive_message
Answered ==
    /\ workers[1].state = "Active"
    /\ workers[1].todo = <<>>
    /\ workers[1].sent # <<>>
    /\ LET last == workers[1].sent[Len(workers[1].sent)]
       IN last.kind = "frame" /\ last.text.obj.type \in TerminalTypes

\* C23: for every command of a recognized type (list_files, download_file,
\* download_multiple) received on an Active connection whose client keeps
\* reading and does not close, the server eventually sends the terminal message
\* of that request and returns to waiting for the next command.
C23_RequestTerminates == Serving ~> (Answered \/ workers[1].peer = "closed")

\* a download of several chunks answered in full to a peer that is still there,
\* each write having waited for the peer to read
C23_Witness ==
    /\ Answered
    /\ workers[1].peer = "open"
    /\ Len(workers[1].sent) > 5
    /\ workers[1].sent[Len(workers[1].sent)].text.obj.type = "file_complete"

====
